---- MODULE Spec2Model ----
(***************************************************************************)
(* Model of src/mt5_trading_system.py (Sentinel Gold Trader): the quote    *)
(* aggregator (MarketDataFetcher), the risk gate (RiskManager), the order  *)
(* lifecycle manager (MT5Executor), the audit log (TradeLogger) and the    *)
(* execution cycle controller (TradingSystem).                             *)
(*                                                                         *)
(* Numbers.  The program computes with Python floats; the model computes   *)
(* with exact integers:                                                    *)
(*   - a price is an integer count of half price units, so that the 0.5    *)
(*     half-spread of lines 145-146 and 171-172 is exactly 1; terminal     *)
(*     ticks are drawn from whole price units (even counts), so that the   *)
(*     mid price (bid + ask) / 2 of line 113 is exact;                     *)
(*   - money (balance, equity) is an integer amount of account currency;   *)
(*   - a ratio cap (max_daily_loss, max_drawdown, max_risk_per_trade) is   *)
(*     an integer percentage, and ratios are compared by cross             *)
(*     multiplication;                                                     *)
(*   - a lot size is an integer count of hundredths of a lot (the two      *)
(*     decimals of round(lot_size, 2), line 561).                          *)
(*   - a time is an integer count of tenths of a second, the shortest       *)
(*     duration of the program (time.sleep(0.1), line 735).                *)
(* Float rounding error, infinities and NaN are outside the model.         *)
(*                                                                         *)
(* Python values.  None is the record None below; the result of a call is  *)
(* Ret(v) when it returns v and Raise when an exception leaves it, and     *)
(* Catch models a try / except Exception whose handler returns a default.  *)
(***************************************************************************)
EXTENDS Integers, Sequences, FiniteSets, TLC

VARIABLES
    now,              \* the wall clock, time.time()
    last_fetch_time,  \* MarketDataFetcher.last_fetch_time
    config,           \* ConfigManager.config: the options the model reads
    day_start_balance,  \* RiskManager.day_start_balance
    daily_loss,       \* RiskManager.daily_loss
    daily_trades,     \* RiskManager.daily_trades
    initialized,      \* MT5Executor.initialized
    orders,           \* the requests order_send was given, with the broker's answers
    trades,           \* the trade ledger, the file trades.csv
    events,           \* the event ledger, the file events.csv
    running,          \* TradingSystem.running
    last_price_check, \* TradingSystem.last_price_check
    pc,               \* where start() and its _main_loop stand
    price_data,       \* _main_loop's price_data of the current tick
    account_info,     \* _main_loop's account_info of the current tick
    sleep_until,      \* the time at which the current time.sleep ends
    trail,            \* the steps the current tick has taken, in order
    ticks,            \* the ticks started so far
    unavailable,      \* the steps of each tick since the last one that had a price
    last_block,       \* the time of the last BLOCK decision in the loop, 0 before it
    call              \* the last operation applied: its inputs and its result

fetcherVars == <<last_fetch_time>>
riskVars == <<day_start_balance, daily_loss, daily_trades>>
executorVars == <<initialized, orders>>
loggerVars == <<trades, events>>
systemVars == <<running, last_price_check, pc, price_data, account_info,
                sleep_until, trail, ticks, unavailable,
                last_block>>
vars == <<now, config, fetcherVars, riskVars, executorVars, loggerVars,
          systemVars, call>>

-----------------------------------------------------------------------------
(* Bounds of the model *)

\* The clock's first reading and the last reading at which an operation of
\* the aggregator on its own starts, and the time that passes between two
\* operations: less than the minimum fetch interval, or all of it.
StartTime == 50
MaxTime == 64
AdvanceSteps == {4, 10}

\* Bid and ask of a terminal tick, in half price units (whole price units).
TickValues == {0, 4000, 4002}
\* The price an external provider reports, in half price units.
ProviderPrices == {-4000, 0, 4001}

\* The fields of an account snapshot the risk gate reads: balance and equity in
\* account currency, the margin level in percent.
Balances == {0, 9500, 10000, 10500}
Equities == {0, 8900, 9000, 9800}
MarginLevels == {0, 199, 200, 250, 300}

\* The operations applied at most to the executor and the logger on their own.
MaxCalls == 2

\* The ticks the main loop starts at most, and the orders it submits at most.
MaxTicks == 2
MaxOrders == 1
\* The ticks the loop starts at most when no strategy and no stop request act.
MaxLoopTicks == 4
\* The configured price_check_interval (5 seconds by default): a few sleep
\* slices, so that the pacing of lines 734-736 takes more than one.
price_check_interval == 3

\* What the main loop's sources report: tick values and provider prices in half
\* price units, the snapshot at startup and the snapshots of the ticks.
CycleTickValues == {4000}
CycleProviderPrices == {4001}
StartSnapshots == {[balance |-> 10000, equity |-> 9800, margin_level |-> 300]}
CycleSnapshots ==
    {[balance |-> 10000, equity |-> 9800, margin_level |-> 300],
     [balance |-> 9500, equity |-> 9500, margin_level |-> 300],
     [balance |-> 10000, equity |-> 8900, margin_level |-> 300],
     [balance |-> 10000, equity |-> 9800, margin_level |-> 199],
     [balance |-> 0, equity |-> 0, margin_level |-> 0]}

\* The arguments of calculate_position_size: a balance, and an entry and a stop
\* price in half price units.
SizingBalances == {0, 5, 10000}
EntryPrices == {4000, 4020}
StopPrices == {3000, 4000, 4020, 4040}

-----------------------------------------------------------------------------
(* Python values *)

None == [none |-> TRUE]
Ret(v) == [raised |-> FALSE, value |-> v]
Raise == [raised |-> TRUE, value |-> None]

\* try: <body> / except Exception: return <default>
Catch(r, default) == IF r.raised THEN Ret(default) ELSE r

\* The truth value of an Optional[Dict] whose dict is never empty.
Truthy(v) == v # None

-----------------------------------------------------------------------------
(* MarketDataFetcher *)

\* self.min_fetch_interval = 1 second
min_fetch_interval == 10
\* The half-spread 0.5 that both external providers' quotes are given.
HalfSpread == 1

\* What the terminal does in one _fetch_from_mt5: initialize() fails, the tick
\* is missing, a call raises, or a tick is delivered.
MT5Outcomes(values, times) ==
    {[kind |-> k] : k \in {"init_failed", "no_tick", "error"}}
    \cup {[kind |-> "tick", bid |-> b, ask |-> a, time |-> tm] :
             b \in values, a \in values, tm \in times}

\* What Alpha Vantage does in one request: the transport raises, a non-200
\* status, no "Global Quote", no "05. price" in it, a price that float() rejects,
\* or a price.
AVOutcomes(prices) ==
    {[kind |-> k] : k \in {"error", "status", "no_quote", "no_price", "bad_price"}}
    \cup {[kind |-> "price", price |-> p] : p \in prices}

\* What Finnhub does in one request: the transport raises, a non-200 status,
\* no 'c' in the answer, a 'c' that is not a number (null), or a price.
FHOutcomes(prices) ==
    {[kind |-> k] : k \in {"error", "status", "no_price", "bad_price"}}
    \cup {[kind |-> "price", price |-> p] : p \in prices}

Quote(price, bid, ask, timestamp, source) ==
    [price |-> price, bid |-> bid, ask |-> ask, timestamp |-> timestamp,
     source |-> source]

fetch_from_mt5_body(o) ==
    IF o.kind = "error" THEN Raise
    ELSE IF o.kind = "init_failed" THEN Ret(None)
    ELSE IF o.kind = "no_tick" THEN Ret(None)
    ELSE Ret(Quote((o.bid + o.ask) \div 2, o.bid, o.ask, o.time, "MT5"))

_fetch_from_mt5(o) == Catch(fetch_from_mt5_body(o), None)

\* Whether _fetch_from_mt5 goes on to mt5.initialize(): line 105 is its first
\* statement, and the fetcher holds no flag of the executor's session, init.
fetch_from_mt5_ReachesTerminal(init) == TRUE

fetch_from_alpha_vantage_body(o, t) ==
    IF o.kind = "error" THEN Raise
    ELSE IF o.kind = "status" THEN Ret(None)
    ELSE IF o.kind = "no_quote" THEN Ret(None)
    ELSE IF o.kind = "bad_price" THEN Raise
    ELSE LET price == IF o.kind = "no_price" THEN 0 ELSE o.price
         IN  IF price = 0 THEN Ret(None)
             ELSE Ret(Quote(price, price - HalfSpread, price + HalfSpread, t,
                            "AlphaVantage"))

\* The same without its try / except: a transport failure leaves the call.
fetch_from_alpha_vantage_Uncaught(o, t) == fetch_from_alpha_vantage_body(o, t)

_fetch_from_alpha_vantage(o, t) == Catch(fetch_from_alpha_vantage_body(o, t), None)

fetch_from_finnhub_body(o, t) ==
    IF o.kind = "error" THEN Raise
    ELSE IF o.kind = "status" THEN Ret(None)
    \* a 'c' that is no number is not == 0, and price - 0.5 raises TypeError
    ELSE IF o.kind = "bad_price" THEN Raise
    ELSE LET price == IF o.kind = "no_price" THEN 0 ELSE o.price
         IN  IF price = 0 THEN Ret(None)
             ELSE Ret(Quote(price, price - HalfSpread, price + HalfSpread, t,
                            "Finnhub"))

_fetch_from_finnhub(o, t) == Catch(fetch_from_finnhub_body(o, t), None)

\* The same without the throttle.
FetchTime_NoThrottle(lft, current_time) == current_time

\* The throttle of lines 74-78: the time at which the sources are queried.
FetchTime(lft, current_time) ==
    IF current_time - lft < min_fetch_interval
    THEN current_time + (min_fetch_interval - (current_time - lft))
    ELSE current_time

\* The same with the sources tried in the opposite order.
get_live_price_LastWins(key, m, a, f, t) ==
    LET mt5_price == _fetch_from_mt5(m)
        av_price == _fetch_from_alpha_vantage(a, t)
        finnhub_price == _fetch_from_finnhub(f, t)
    IN  IF Truthy(finnhub_price.value) THEN finnhub_price
        ELSE IF key /\ Truthy(av_price.value) THEN av_price
        ELSE IF Truthy(mt5_price.value) THEN mt5_price
        ELSE Ret(None)

\* get_live_price after the throttle: key is the truth value of
\* self.alpha_vantage_key, m, a, f what the three sources do, t the query time.
get_live_price(key, m, a, f, t) ==
    LET mt5_price == _fetch_from_mt5(m)
        av_price == _fetch_from_alpha_vantage(a, t)
        finnhub_price == _fetch_from_finnhub(f, t)
    IN  IF mt5_price.raised THEN mt5_price
        ELSE IF Truthy(mt5_price.value) THEN mt5_price
        ELSE IF key /\ av_price.raised THEN av_price
        ELSE IF key /\ Truthy(av_price.value) THEN av_price
        ELSE IF finnhub_price.raised THEN finnhub_price
        ELSE IF Truthy(finnhub_price.value) THEN finnhub_price
        ELSE Ret(None)

-----------------------------------------------------------------------------
(* RiskManager *)

\* config.get('max_risk_per_trade', 0.02), 'max_daily_loss' 0.05 and
\* 'max_drawdown' 0.10 at their defaults, in percent
max_risk_per_trade == 2
max_daily_loss == 5
max_drawdown == 10
\* The margin level, in percent, below which trading is blocked.
MinMarginLevel == 200
\* value_per_point = 1.0 (XAUUSD)
value_per_point == 1
\* The decimals a lot size is rounded to, and the lot sizes
\* config.get('min_lot_size', 0.01) and config.get('max_lot_size', 10.0) default
\* to, in hundredths of a lot.
LotDecimals == 2
DefaultMinLot == 1
DefaultMaxLot == 1000

\* Half price units in a price unit, hundredths of a lot in a lot.
PriceScale == 2 * HalfSpread
LotScale == 10 ^ LotDecimals

Abs(x) == IF x < 0 THEN -x ELSE x
Max(a, b) == IF b > a THEN b ELSE a
Min(a, b) == IF b < a THEN b ELSE a

\* round(n / d) for d > 0: to the nearest integer, a tie to the even one.
RoundHalfEven(n, d) ==
    LET q == n \div d
        r == n % d
    IN  IF 2 * r < d THEN q
        ELSE IF 2 * r > d THEN q + 1
        ELSE IF q % 2 = 0 THEN q ELSE q + 1

\* num / den >= pct percent, for den # 0
RatioAtLeast(num, den, pct) ==
    IF den > 0 THEN 100 * num >= pct * den ELSE 100 * num <= pct * den

Sized(raised, value, divided) ==
    [raised |-> raised, value |-> value, divided |-> divided]

\* Lines 544-561: the division and the rounding, in hundredths of a lot.
\* risk_amount is account_balance * max_risk_per_trade / 100 and points_at_risk
\* counts half price units, so lot_size * LotScale is
\* (account_balance * max_risk_per_trade * PriceScale * LotScale)
\*   / (100 * points_at_risk * value_per_point).
LotSize(account_balance, points_at_risk) ==
    LET den == 100 * points_at_risk * value_per_point
        num == account_balance * max_risk_per_trade * PriceScale * LotScale
    IN  IF den = 0 THEN Sized(TRUE, None, TRUE)     \* ZeroDivisionError
        ELSE Sized(FALSE, RoundHalfEven(num, den), TRUE)

\* Lines 564-567: max(min_lot, min(lot_size, max_lot))
ClampLot(cfg, lot_size) == Max(cfg.min_lot_size, Min(lot_size, cfg.max_lot_size))

\* The try body of calculate_position_size, lines 543-571.
calculate_position_size_body(cfg, account_balance, entry_price, stop_loss) ==
    LET points_at_risk == Abs(entry_price - stop_loss)
        lot == LotSize(account_balance, points_at_risk)
    IN  IF points_at_risk = 0 THEN Sized(FALSE, 0, FALSE)
        ELSE IF lot.raised THEN lot
        ELSE Sized(FALSE, ClampLot(cfg, lot.value), TRUE)

\* except Exception: return 0
CatchSize(r) == IF r.raised THEN Sized(FALSE, 0, r.divided) ELSE r

\* The same without the points_at_risk == 0 test.
calculate_position_size_NoGuard(cfg, account_balance, entry_price, stop_loss) ==
    LET lot == LotSize(account_balance, Abs(entry_price - stop_loss))
    IN  CatchSize(IF lot.raised THEN lot
                  ELSE Sized(FALSE, ClampLot(cfg, lot.value), TRUE))

\* The same with the lower clamp only: max(min_lot, lot_size).
calculate_position_size_NoMax(cfg, account_balance, entry_price, stop_loss) ==
    LET points_at_risk == Abs(entry_price - stop_loss)
        lot == LotSize(account_balance, points_at_risk)
    IN  IF points_at_risk = 0 THEN Sized(FALSE, 0, FALSE)
        ELSE Sized(FALSE, Max(cfg.min_lot_size, lot.value), TRUE)

calculate_position_size(cfg, account_balance, entry_price, stop_loss) ==
    CatchSize(calculate_position_size_body(cfg, account_balance, entry_price,
                                           stop_loss))

Decision(allowed, reason) == [allowed |-> allowed, reason |-> reason]
DailyLossReason == "Daily loss limit reached"
DrawdownReason == "Max drawdown reached"
MarginReason == "Margin level too low"
AllowedReason == "Trading allowed"

\* The result of check_trading_allowed and the day_start_balance it leaves.
Checked(dsb, r) == [day_start_balance |-> dsb, result |-> r]

\* The same with the margin-level test before the drawdown test.
check_trading_allowed_MarginFirst(dsb0, info) ==
    LET dsb == IF dsb0 = 0 THEN info.balance ELSE dsb0
    IN  Checked(dsb,
          IF dsb = 0 THEN Raise
          ELSE IF RatioAtLeast(dsb - info.balance, dsb, max_daily_loss)
          THEN Ret(Decision(FALSE, DailyLossReason))
          ELSE IF info.margin_level < MinMarginLevel
          THEN Ret(Decision(FALSE, MarginReason))
          ELSE IF info.balance = 0 THEN Raise
          ELSE IF RatioAtLeast(info.balance - info.equity,
                               info.balance, max_drawdown)
          THEN Ret(Decision(FALSE, DrawdownReason))
          ELSE Ret(Decision(TRUE, AllowedReason)))

\* The same with the daily-loss cap exclusive: current_daily_loss > max_daily_loss.
check_trading_allowed_StrictLoss(dsb0, info) ==
    LET dsb == IF dsb0 = 0 THEN info.balance ELSE dsb0
    IN  Checked(dsb,
          IF dsb = 0 THEN Raise
          ELSE IF 100 * (dsb - info.balance) > max_daily_loss * dsb
          THEN Ret(Decision(FALSE, DailyLossReason))
          ELSE IF info.balance = 0 THEN Raise
          ELSE IF RatioAtLeast(info.balance - info.equity,
                               info.balance, max_drawdown)
          THEN Ret(Decision(FALSE, DrawdownReason))
          ELSE IF info.margin_level < MinMarginLevel
          THEN Ret(Decision(FALSE, MarginReason))
          ELSE Ret(Decision(TRUE, AllowedReason)))

\* check_trading_allowed, lines 577-600, on self.day_start_balance = dsb0: the
\* lazy capture comes first and stays when a division raises.
check_trading_allowed(dsb0, info) ==
    LET dsb == IF dsb0 = 0 THEN info.balance ELSE dsb0
    IN  Checked(dsb,
          IF dsb = 0 THEN Raise                     \* ZeroDivisionError, line 585
          ELSE IF RatioAtLeast(dsb - info.balance, dsb, max_daily_loss)
          THEN Ret(Decision(FALSE, DailyLossReason))
          ELSE IF info.balance = 0 THEN Raise   \* ZeroDivisionError, line 591
          ELSE IF RatioAtLeast(info.balance - info.equity,
                               info.balance, max_drawdown)
          THEN Ret(Decision(FALSE, DrawdownReason))
          ELSE IF info.margin_level < MinMarginLevel
          THEN Ret(Decision(FALSE, MarginReason))
          ELSE Ret(Decision(TRUE, AllowedReason)))

-----------------------------------------------------------------------------
(* MT5Executor *)

\* What the terminal does when a session is opened: mt5.initialize() fails,
\* mt5.login() fails, a call raises, or the session stands.
InitOutcomes == {"init_failed", "login_failed", "error", "ok"}

\* initialize() consults the terminal only when no session stands.
SessionOutcomes(init) == IF init THEN {"ok"} ELSE InitOutcomes

\* initialize(), lines 289-316, on self.initialized = init: the value it
\* returns, which is also the self.initialized it leaves.
initialize(init, o) == init \/ o = "ok"

\* Whether initialize() goes on to mt5.initialize(), line 295: lines 291-292
\* return before it when self.initialized = init is set.
initialize_ReachesTerminal(init) == ~init

\* What mt5.account_info() does: None, an exception, or a snapshot.
AccountOutcomes(snapshots) ==
    {[kind |-> k] : k \in {"none", "error"}}
    \cup {[kind |-> "info", info |-> a] : a \in snapshots}

\* get_account_info, lines 325-347, after its initialize() returned init_ok
get_account_info(init_ok, o) ==
    IF ~init_ok THEN None
    ELSE IF o.kind = "info" THEN o.info
    ELSE None

\* What the terminal does in one open_position: the symbol is unknown, it cannot
\* be selected, the tick is missing, a call before order_send raises; order_send
\* raises, answers None, answers a retcode other than TRADE_RETCODE_DONE, or
\* accepts the order.
OpenOutcomes ==
    {"no_symbol", "select_failed", "no_tick", "error",
     "send_error", "send_none", "rejected", "done"}

\* The outcomes in which open_position reaches mt5.order_send (line 406).
Submitted == {"send_error", "send_none", "rejected", "done"}

\* The opening requests among sent that the broker accepted.
Accepted(sent) ==
    {i \in 1..Len(sent) : sent[i].type # "close" /\ sent[i].outcome = "done"}

\* The request of lines 390-403 as the terminal receives it, with its answer;
\* the broker gives an accepted order the next ticket.
OrderSent(sent, order_type, volume, sl, tp, o) ==
    [type |-> order_type, volume |-> volume, sl |-> sl, tp |-> tp,
     outcome |-> o,
     ticket |-> IF o = "done" THEN 1 + Cardinality(Accepted(sent)) ELSE 0]

\* The same with every answer of order_send taken for an acceptance.
open_position_AnyAnswer(init_ok, sent, order_type, volume, sl, tp, o, t) ==
    IF ~init_ok \/ o \notin Submitted THEN [orders |-> sent, result |-> None]
    ELSE LET request == OrderSent(sent, order_type, volume, sl, tp, o)
         IN  [orders |-> Append(sent, request),
              result |-> [ticket |-> request.ticket, volume |-> volume,
                          type |-> order_type, sl |-> sl, tp |-> tp,
                          timestamp |-> t]]

\* open_position, lines 349-432, after its initialize() returned init_ok: the
\* requests order_send has been given, and the result dict or None.
open_position(init_ok, sent, order_type, volume, sl, tp, o, t) ==
    IF ~init_ok \/ o \notin Submitted THEN [orders |-> sent, result |-> None]
    ELSE LET request == OrderSent(sent, order_type, volume, sl, tp, o)
         IN  [orders |-> Append(sent, request),
              result |-> IF o = "done"
                         THEN [ticket |-> request.ticket, volume |-> volume,
                               type |-> order_type, sl |-> sl, tp |-> tp,
                               timestamp |-> t]
                         ELSE None]

\* The positions the broker holds open: the tickets of the accepted orders
\* that no accepted closing request names.
OpenTickets(sent) ==
    {sent[i].ticket : i \in Accepted(sent)}
    \ {sent[i].position :
          i \in {j \in 1..Len(sent) :
                    sent[j].type = "close" /\ sent[j].outcome = "done"}}

\* What the terminal does in one close_position: the position is not found, a
\* call before order_send raises (the tick is missing); order_send raises,
\* answers None, answers a retcode other than TRADE_RETCODE_DONE, or closes.
CloseOutcomes ==
    {"not_found", "error", "send_error", "send_none", "rejected", "done"}

\* The closing request of lines 460-472 as the terminal receives it.
CloseSent(ticket, o) == [type |-> "close", position |-> ticket, outcome |-> o]

\* close_position, lines 434-485, after its initialize() returned init_ok: the
\* requests order_send has been given, and the bool returned.  The terminal
\* finds no position under a ticket that is not open.
close_position(init_ok, sent, ticket, o) ==
    IF ~init_ok \/ ticket \notin OpenTickets(sent) \/ o \notin Submitted
    THEN [orders |-> sent, result |-> FALSE]
    ELSE [orders |-> Append(sent, CloseSent(ticket, o)), result |-> o = "done"]

\* What mt5.positions_get does: None, an exception, or the open positions.
PositionsOutcomes == {"none", "error", "positions"}

\* get_open_positions, lines 487-520, after its initialize() returned init_ok
get_open_positions(init_ok, sent, o) ==
    IF init_ok /\ o = "positions" THEN OpenTickets(sent) ELSE {}

\* config.get('default_sl_points', 10) and config.get('default_tp_points', 20)
\* at their defaults, in price units
DefaultSlPoints == 10
DefaultTpPoints == 20

-----------------------------------------------------------------------------
(* TradeLogger *)

\* A ledger is a CSV file: absent, or its lines in file order.  A line is the
\* header or a data row, a record of the file's columns (the event ledger's
\* timestamp column, datetime.now(), is left out of its rows).  A write that
\* fails leaves the file as it was: no partial line.
Absent == [exists |-> FALSE, lines |-> <<>>]
File(lines) == [exists |-> TRUE, lines |-> lines]

\* The header rows of lines 624-627 and 633
TradeHeader ==
    [header |-> <<"timestamp", "ticket", "symbol", "type", "volume",
                  "entry_price", "exit_price", "sl", "tp", "profit", "comment",
                  "status">>]
EventHeader == [header |-> <<"timestamp", "event_type", "description", "data">>]

\* One ledger in _ensure_files_exist, lines 618-633: created with its header
\* when os.path.exists says it is absent, left alone otherwise.
_ensure_files_exist(file, header) ==
    IF ~file.exists THEN File(<<header>>) ELSE file

\* dict.get(key, default)
Get(d, key, default) == IF key \in DOMAIN d THEN d[key] ELSE default

\* The row log_trade writes for trade_data at time t, lines 639-652
TradeLine(trade_data, t) ==
    [timestamp |-> Get(trade_data, "timestamp", t),
     ticket |-> Get(trade_data, "ticket", ""),
     symbol |-> Get(trade_data, "symbol", ""),
     type |-> Get(trade_data, "type", ""),
     volume |-> Get(trade_data, "volume", 0),
     entry_price |-> Get(trade_data, "entry_price", 0),
     exit_price |-> Get(trade_data, "exit_price", 0),
     sl |-> Get(trade_data, "sl", 0),
     tp |-> Get(trade_data, "tp", 0),
     profit |-> Get(trade_data, "profit", 0),
     comment |-> Get(trade_data, "comment", ""),
     status |-> Get(trade_data, "status", "")]

\* The row log_event writes, lines 662-667; json.dumps(data) if data else ''
EventLine(event_type, description, data) ==
    [event_type |-> event_type, description |-> description,
     data |-> IF Truthy(data) THEN data ELSE None]

\* with open(file, 'a') as f: writer.writerow(line).  Mode 'a' creates an
\* absent file empty; the write fails when the store does not take it.
AppendLine(file, line, written) ==
    IF written
    THEN [file |-> File(Append(file.lines, line)), result |-> Ret(None)]
    ELSE [file |-> file, result |-> Raise]

\* except Exception as e: logger.error(...), lines 654-655 and 668-669
CatchLog(x) == [file |-> x.file, result |-> Catch(x.result, None)]

\* The data rows of a ledger, in file order.
IsHeader(line) == "header" \in DOMAIN line
DataRows(file) == SelectSeq(file.lines, LAMBDA line : ~IsHeader(line))

\* The same with the file opened in mode 'w'.
log_trade_Truncating(file, trade_data, t, written) ==
    CatchLog(AppendLine(File(<<>>), TradeLine(trade_data, t), written))

\* The same without the except clause.
log_trade_Uncaught(file, trade_data, t, written) ==
    AppendLine(file, TradeLine(trade_data, t), written)

\* log_trade, lines 635-655, at time t: the ledger it leaves and its result.
log_trade(file, trade_data, t, written) ==
    CatchLog(AppendLine(file, TradeLine(trade_data, t), written))

\* log_event, lines 657-669
log_event(file, event_type, description, data, written) ==
    CatchLog(AppendLine(file, EventLine(event_type, description, data), written))

-----------------------------------------------------------------------------
(* Configuration and the operations' common frame *)

NoCall == [op |-> "none"]

\* The values of min_lot_size and max_lot_size a configuration may hold, in
\* hundredths of a lot.
LotLimits == {DefaultMinLot, 50, DefaultMaxLot}
\* The values of default_sl_points a configuration may hold, in price units.
SlPoints == {0, DefaultSlPoints}

\* config.json is read without validation: any min_lot_size and max_lot_size,
\* also a minimum above the maximum; the Alpha Vantage key may be absent.
Configs ==
    {[alpha_vantage_api_key |-> k, min_lot_size |-> lo, max_lot_size |-> hi,
      default_sl_points |-> sl] :
        k \in BOOLEAN, lo \in LotLimits, hi \in LotLimits, sl \in SlPoints}

\* The configurations with the default lot limits and stop-loss offset.
DefaultLots(c) ==
    c.min_lot_size = DefaultMinLot /\ c.max_lot_size = DefaultMaxLot
DefaultOffsets(c) == c.default_sl_points = DefaultSlPoints

\* The state the constructors leave (lines 65, 287, 532-534, 616, 681-682), at
\* the clock's first reading, when they find the ledgers as given.
ConstructedOn(trade_file, event_file) ==
    /\ now = StartTime
    /\ last_fetch_time = 0
    /\ day_start_balance = 0
    /\ daily_loss = 0
    /\ daily_trades = 0
    /\ initialized = FALSE
    /\ orders = <<>>
    /\ trades = _ensure_files_exist(trade_file, TradeHeader)
    /\ events = _ensure_files_exist(event_file, EventHeader)
    /\ running = FALSE
    /\ last_price_check = 0
    /\ pc = "start"
    /\ price_data = None
    /\ account_info = None
    /\ sleep_until = 0
    /\ trail = <<>>
    /\ ticks = 0
    /\ unavailable = <<>>
    /\ last_block = 0

\* The same in a directory that holds no ledger yet, before any call.
Constructed == ConstructedOn(Absent, Absent) /\ call = NoCall

\* Time passes between two operations.
Advance ==
    /\ call = NoCall
    /\ \E d \in AdvanceSteps : now + d <= MaxTime /\ now' = now + d
    /\ UNCHANGED <<fetcherVars, riskVars, executorVars, loggerVars, systemVars,
                   config, call>>

\* The caller takes the result of the last operation.
Return ==
    /\ call # NoCall
    /\ call' = NoCall
    /\ UNCHANGED <<now, fetcherVars, riskVars, executorVars, loggerVars,
                   systemVars, config>>

-----------------------------------------------------------------------------
(* The quote aggregator on its own: repeated get_live_price calls *)

InitQuote ==
    /\ Constructed
    /\ config \in {c \in Configs : DefaultLots(c) /\ DefaultOffsets(c)}

GetLivePrice ==
    /\ now <= MaxTime
    /\ call = NoCall
    /\ \E m \in MT5Outcomes(TickValues, {now - 1, now}),
          a \in AVOutcomes(ProviderPrices), f \in FHOutcomes(ProviderPrices) :
          LET t == FetchTime(last_fetch_time, now)
          IN  /\ last_fetch_time' = t
              /\ now' = t
              /\ call' = [op |-> "get_live_price", at |-> now, queried |-> t,
                          last |-> last_fetch_time,
                          mt5 |-> m, av |-> a, fh |-> f,
                          result |-> get_live_price(config.alpha_vantage_api_key,
                                                    m, a, f, t)]
    /\ UNCHANGED <<riskVars, executorVars, loggerVars, systemVars, config>>

NextQuote == Advance \/ Return \/ GetLivePrice

SpecQuote == InitQuote /\ [][NextQuote]_vars

-----------------------------------------------------------------------------
(* The risk gate on its own: any sequence of its three operations.  trail   *)
(* holds the first check_trading_allowed since construction or since the     *)
(* last reset_daily_stats.                                                   *)

AccountInfo(balance, equity, margin_level) ==
    [balance |-> balance, equity |-> equity, margin_level |-> margin_level]

Snapshots ==
    {AccountInfo(b, e, m) : b \in Balances, e \in Equities, m \in MarginLevels}

InitRisk ==
    /\ Constructed
    /\ config \in {c \in Configs : c.alpha_vantage_api_key /\ DefaultOffsets(c)}

CheckTradingAllowed ==
    /\ call = NoCall
    /\ \E info \in Snapshots :
          LET c == check_trading_allowed(day_start_balance, info)
          IN  /\ day_start_balance' = c.day_start_balance
              /\ call' = [op |-> "check_trading_allowed",
                          account_info |-> info,
                          before |-> day_start_balance, result |-> c.result]
              /\ trail' = IF trail = <<>>
                          THEN <<[step |-> "check_trading_allowed",
                                  account_info |-> info]>>
                          ELSE trail
    /\ UNCHANGED <<now, fetcherVars, daily_loss, daily_trades, executorVars,
                   loggerVars, running, last_price_check, pc, price_data,
                   account_info, sleep_until, ticks, unavailable, last_block, config>>

CalculatePositionSize ==
    /\ call = NoCall
    /\ \E account_balance \in SizingBalances, entry_price \in EntryPrices,
          stop_loss \in StopPrices :
          call' = [op |-> "calculate_position_size",
                   account_balance |-> account_balance,
                   entry_price |-> entry_price, stop_loss |-> stop_loss,
                   result |-> calculate_position_size(config, account_balance,
                                                      entry_price, stop_loss)]
    /\ UNCHANGED <<now, fetcherVars, riskVars, executorVars, loggerVars,
                   systemVars, config>>

\* reset_daily_stats, lines 602-607
ResetDailyStats ==
    /\ call = NoCall
    /\ daily_loss' = 0
    /\ daily_trades' = 0
    /\ day_start_balance' = 0
    /\ call' = [op |-> "reset_daily_stats"]
    /\ trail' = <<>>
    /\ UNCHANGED <<now, fetcherVars, executorVars, loggerVars, running,
                   last_price_check, pc, price_data, account_info, sleep_until,
                   ticks, unavailable, last_block, config>>

NextRisk == CheckTradingAllowed \/ CalculatePositionSize \/ ResetDailyStats \/ Return

SpecRisk == InitRisk /\ [][NextRisk]_vars

-----------------------------------------------------------------------------
(* TradingSystem: start(), _main_loop() and stop() *)

\* The time.sleep(0.1) of the pacing, the time.sleep(5) after a failed fetch or
\* a fault, and the time.sleep(60) after a BLOCK
SleepSlice == 1
FailureBackoff == 50
BlockBackoff == 600

\* config.get('symbol', 'XAUUSD') at its default, line 727
Symbol == "XAUUSD"

\* The control points of _main_loop.
LoopPcs ==
    {"loop", "sleeping", "fetch_price", "fetch_account", "evaluate_risk",
     "monitor", "trade"}

\* The strategy hook of lines 773-781.  The source leaves the calls of
\* _execute_buy and _execute_sell there as a comment; the model lets a strategy
\* signal a buy or a sell at that place, or nothing as the source stands.
Signals == {"none", "buy", "sell"}

\* The system as constructed, with the default lot limits and all three price
\* sources configured.
InitSystem ==
    /\ Constructed
    /\ config \in {c \in Configs : DefaultLots(c) /\ c.alpha_vantage_api_key}

\* start() going on to the loop whatever initialize() returned.
Start_Regardless ==
    /\ pc = "start"
    /\ \E io \in SessionOutcomes(initialized), ao \in AccountOutcomes(StartSnapshots),
          written \in BOOLEAN :
          LET ok == initialize(initialized, io)
          IN  /\ initialized' = ok
              /\ trail' = <<[step |-> "initialize", result |-> ok]>>
              /\ IF FALSE
                 THEN /\ pc' = "returned"
                      /\ UNCHANGED <<events, running>>
                 ELSE /\ events' = log_event(events, "SYSTEM_START",
                                             "Trading system started",
                                             get_account_info(ok, ao),
                                             written).file
                      /\ running' = TRUE
                      /\ pc' = "loop"
    /\ UNCHANGED <<now, config, fetcherVars, riskVars, orders, trades,
                   last_price_check, price_data, account_info, sleep_until, ticks, unavailable,
                   last_block, call>>

\* start() up to the call of _main_loop, lines 685-709
Start ==
    /\ pc = "start"
    /\ \E io \in SessionOutcomes(initialized), ao \in AccountOutcomes(StartSnapshots),
          written \in BOOLEAN :
          LET ok == initialize(initialized, io)
          IN  /\ initialized' = ok
              /\ trail' = <<[step |-> "initialize", result |-> ok]>>
              /\ IF ~ok
                 THEN /\ pc' = "returned"
                      /\ UNCHANGED <<events, running>>
                 ELSE /\ events' = log_event(events, "SYSTEM_START",
                                             "Trading system started",
                                             get_account_info(ok, ao),
                                             written).file
                      /\ running' = TRUE
                      /\ pc' = "loop"
    /\ UNCHANGED <<now, config, fetcherVars, riskVars, orders, trades,
                   last_price_check, price_data, account_info, sleep_until, ticks, unavailable,
                   last_block, call>>

\* The names of the steps a tick took.
StepNames(steps) == [i \in 1..Len(steps) |-> steps[i].step]

\* get_live_price returned no quote.
Unavailable(r) == r.raised \/ r.value = None

\* The locals of the tick that ended are dead: no later statement reads them
\* before it assigns them.  A tick that ended without a price joins the ticks
\* without one before it; a tick that had a price ends their run.
ClearTick ==
    /\ price_data' = None
    /\ account_info' = None
    /\ trail' = <<>>
    /\ unavailable' =
          IF trail = <<>> THEN unavailable
          ELSE IF trail[1].step = "get_live_price" /\ Unavailable(trail[1].result)
          THEN Append(unavailable, StepNames(trail))
          ELSE <<>>

\* The head of the loop, lines 729-738: the test of self.running and the pacing.
LoopHead(limit) ==
    /\ pc = "loop"
    /\ ClearTick
    /\ IF ~running
       THEN /\ pc' = "finally"
            /\ UNCHANGED <<last_price_check, sleep_until, ticks>>
       ELSE /\ ticks < limit
            /\ IF now - last_price_check < price_check_interval
               THEN /\ pc' = "sleeping"
                    /\ sleep_until' = now + SleepSlice
                    /\ UNCHANGED <<last_price_check, ticks>>
               ELSE /\ last_price_check' = now
                    /\ pc' = "fetch_price"
                    /\ ticks' = ticks + 1
                    /\ UNCHANGED sleep_until
    /\ UNCHANGED <<now, config, fetcherVars, riskVars, executorVars, loggerVars,
                   running, last_block, call>>

LoopTop == LoopHead(MaxTicks)

\* The end of a time.sleep; continue, or the end of the except block.
Wake ==
    /\ pc = "sleeping"
    /\ now' = Max(now, sleep_until)
    /\ sleep_until' = 0
    /\ pc' = "loop"
    /\ UNCHANGED <<config, fetcherVars, riskVars, executorVars, loggerVars,
                   running, last_price_check, price_data, account_info,
                   trail, ticks, unavailable,
                   last_block, call>>

\* The same without the continue after a failed fetch.
FetchPrice_NoContinue ==
    /\ pc = "fetch_price"
    /\ \E m \in MT5Outcomes(CycleTickValues, {now}),
          a \in AVOutcomes(CycleProviderPrices),
          f \in FHOutcomes(CycleProviderPrices) :
          LET t == FetchTime(last_fetch_time, now)
              r == get_live_price(config.alpha_vantage_api_key, m, a, f, t)
          IN  /\ last_fetch_time' = t
              /\ now' = t
              /\ trail' = Append(trail,
                    [step |-> "get_live_price", result |-> r,
                     reinitialized |->
                        initialized /\ fetch_from_mt5_ReachesTerminal(initialized)])
              /\ IF r.raised \/ r.value = None
                 THEN /\ pc' = "fetch_account"
                      /\ UNCHANGED <<sleep_until, price_data>>
                 ELSE /\ price_data' = r.value
                      /\ pc' = "fetch_account"
                      /\ UNCHANGED sleep_until
    /\ UNCHANGED <<config, riskVars, executorVars, loggerVars, running,
                   last_price_check, account_info, ticks, unavailable,
                   last_block, call>>

\* Lines 740-748: the price of the tick.
FetchPrice ==
    /\ pc = "fetch_price"
    /\ \E m \in MT5Outcomes(CycleTickValues, {now}),
          a \in AVOutcomes(CycleProviderPrices),
          f \in FHOutcomes(CycleProviderPrices) :
          LET t == FetchTime(last_fetch_time, now)
              r == get_live_price(config.alpha_vantage_api_key, m, a, f, t)
          IN  /\ last_fetch_time' = t
              /\ now' = t
              /\ trail' = Append(trail,
                    [step |-> "get_live_price", result |-> r,
                     reinitialized |->
                        initialized /\ fetch_from_mt5_ReachesTerminal(initialized)])
              /\ IF r.raised \/ r.value = None
                 THEN /\ pc' = "sleeping"
                      /\ sleep_until' = t + FailureBackoff
                      /\ UNCHANGED price_data
                 ELSE /\ price_data' = r.value
                      /\ pc' = "fetch_account"
                      /\ UNCHANGED sleep_until
    /\ UNCHANGED <<config, riskVars, executorVars, loggerVars, running,
                   last_price_check, account_info, ticks, unavailable,
                   last_block, call>>

\* The same without the time.sleep(5) of line 754 before the continue.
FetchAccount_NoBackoff ==
    /\ pc = "fetch_account"
    /\ \E io \in SessionOutcomes(initialized), ao \in AccountOutcomes(CycleSnapshots) :
          LET ok == initialize(initialized, io)
              info == get_account_info(ok, ao)
          IN  /\ initialized' = ok
              /\ trail' = Append(trail,
                    [step |-> "get_account_info", result |-> info,
                     reinitialized |->
                        initialized /\ initialize_ReachesTerminal(initialized)])
              /\ IF info = None
                 THEN /\ pc' = "loop"
                      /\ UNCHANGED <<sleep_until, account_info>>
                 ELSE /\ account_info' = info
                      /\ pc' = "evaluate_risk"
                      /\ UNCHANGED sleep_until
    /\ UNCHANGED <<now, config, fetcherVars, riskVars, orders, loggerVars,
                   running, last_price_check, price_data, ticks, unavailable,
                   last_block, call>>

\* Lines 750-755: the account snapshot of the tick.
FetchAccount ==
    /\ pc = "fetch_account"
    /\ \E io \in SessionOutcomes(initialized), ao \in AccountOutcomes(CycleSnapshots) :
          LET ok == initialize(initialized, io)
              info == get_account_info(ok, ao)
          IN  /\ initialized' = ok
              /\ trail' = Append(trail,
                    [step |-> "get_account_info", result |-> info,
                     reinitialized |->
                        initialized /\ initialize_ReachesTerminal(initialized)])
              /\ IF info = None
                 THEN /\ pc' = "sleeping"
                      /\ sleep_until' = now + FailureBackoff
                      /\ UNCHANGED account_info
                 ELSE /\ account_info' = info
                      /\ pc' = "evaluate_risk"
                      /\ UNCHANGED sleep_until
    /\ UNCHANGED <<now, config, fetcherVars, riskVars, orders, loggerVars,
                   running, last_price_check, price_data, ticks, unavailable,
                   last_block, call>>

\* The same without the continue after a BLOCK.
EvaluateRisk_NoContinue ==
    /\ pc = "evaluate_risk"
    /\ LET c == check_trading_allowed(day_start_balance, account_info)
       IN  /\ day_start_balance' = c.day_start_balance
           /\ trail' = Append(trail, [step |-> "check_trading_allowed",
                                      account_info |-> account_info,
                                      result |-> c.result, at |-> now,
                                      last_block |-> last_block])
           /\ last_block' = IF ~c.result.raised /\ ~c.result.value.allowed
                            THEN now ELSE last_block
           /\ IF c.result.raised
              THEN /\ pc' = "sleeping"
                   /\ sleep_until' = now + FailureBackoff
              ELSE /\ pc' = "monitor"
                   /\ UNCHANGED sleep_until
    /\ UNCHANGED <<now, config, fetcherVars, daily_loss, daily_trades,
                   executorVars, loggerVars, running, last_price_check,
                   price_data, account_info, ticks, unavailable, call>>

\* The same with the delay of a failed fetch after a BLOCK.
EvaluateRisk_ShortBlock ==
    /\ pc = "evaluate_risk"
    /\ LET c == check_trading_allowed(day_start_balance, account_info)
       IN  /\ day_start_balance' = c.day_start_balance
           /\ trail' = Append(trail, [step |-> "check_trading_allowed",
                                      account_info |-> account_info,
                                      result |-> c.result, at |-> now,
                                      last_block |-> last_block])
           /\ last_block' = IF ~c.result.raised /\ ~c.result.value.allowed
                            THEN now ELSE last_block
           /\ IF c.result.raised
              THEN /\ pc' = "sleeping"
                   /\ sleep_until' = now + FailureBackoff
              ELSE IF ~c.result.value.allowed
              THEN /\ pc' = "sleeping"
                   /\ sleep_until' = now + FailureBackoff
              ELSE /\ pc' = "monitor"
                   /\ UNCHANGED sleep_until
    /\ UNCHANGED <<now, config, fetcherVars, daily_loss, daily_trades,
                   executorVars, loggerVars, running, last_price_check,
                   price_data, account_info, ticks, unavailable, call>>

\* The same without the except block of lines 783-785: the fault leaves the
\* loop.
EvaluateRisk_Uncaught ==
    /\ pc = "evaluate_risk"
    /\ LET c == check_trading_allowed(day_start_balance, account_info)
       IN  /\ day_start_balance' = c.day_start_balance
           /\ trail' = Append(trail, [step |-> "check_trading_allowed",
                                      account_info |-> account_info,
                                      result |-> c.result, at |-> now,
                                      last_block |-> last_block])
           /\ last_block' = IF ~c.result.raised /\ ~c.result.value.allowed
                            THEN now ELSE last_block
           /\ IF c.result.raised
              THEN /\ pc' = "finally"
                   /\ UNCHANGED sleep_until
              ELSE IF ~c.result.value.allowed
              THEN /\ pc' = "sleeping"
                   /\ sleep_until' = now + BlockBackoff
              ELSE /\ pc' = "monitor"
                   /\ UNCHANGED sleep_until
    /\ UNCHANGED <<now, config, fetcherVars, daily_loss, daily_trades,
                   executorVars, loggerVars, running, last_price_check,
                   price_data, account_info, ticks, unavailable, call>>

\* Lines 757-763, and the except block of lines 783-785 for the fault
\* check_trading_allowed may raise: the risk gate on the tick's snapshot.
EvaluateRisk ==
    /\ pc = "evaluate_risk"
    /\ LET c == check_trading_allowed(day_start_balance, account_info)
       IN  /\ day_start_balance' = c.day_start_balance
           /\ trail' = Append(trail, [step |-> "check_trading_allowed",
                                      account_info |-> account_info,
                                      result |-> c.result, at |-> now,
                                      last_block |-> last_block])
           /\ last_block' = IF ~c.result.raised /\ ~c.result.value.allowed
                            THEN now ELSE last_block
           /\ IF c.result.raised
              THEN /\ pc' = "sleeping"
                   /\ sleep_until' = now + FailureBackoff
              ELSE IF ~c.result.value.allowed
              THEN /\ pc' = "sleeping"
                   /\ sleep_until' = now + BlockBackoff
              ELSE /\ pc' = "monitor"
                   /\ UNCHANGED sleep_until
    /\ UNCHANGED <<now, config, fetcherVars, daily_loss, daily_trades,
                   executorVars, loggerVars, running, last_price_check,
                   price_data, account_info, ticks, unavailable, call>>

\* Lines 765-771: the open positions are listed and reported.
Monitor ==
    /\ pc = "monitor"
    /\ \E io \in SessionOutcomes(initialized), po \in PositionsOutcomes :
          LET ok == initialize(initialized, io)
          IN  /\ initialized' = ok
              /\ trail' = Append(trail,
                    [step |-> "get_open_positions",
                     result |-> get_open_positions(ok, orders, po),
                     reinitialized |->
                        initialized /\ initialize_ReachesTerminal(initialized)])
    /\ pc' = "trade"
    /\ UNCHANGED <<now, config, fetcherVars, riskVars, orders, loggerVars,
                   running, last_price_check, price_data, account_info,
                   sleep_until, ticks, unavailable,
                   last_block, call>>

\* The trade ledger's row for an opened order, lines 818-828 and 866-876.
TradeRow(result, order_type, volume, entry_price, sl, tp) ==
    [timestamp |-> result.timestamp, ticket |-> result.ticket,
     symbol |-> Symbol, type |-> order_type, volume |-> volume, entry_price |-> entry_price,
     sl |-> sl, tp |-> tp, status |-> "opened"]

\* The same without the volume == 0 test of lines 803-805 and 851-853.
ExecuteOrder_NoSkip(order_type, entry_price, sl, tp, info, io, oo, written) ==
    LET size == calculate_position_size(config, info.balance, entry_price, sl)
        volume == size.value
        sized == [step |-> "calculate_position_size", volume |-> volume]
        ok == initialize(initialized, io)
        opened == open_position(ok, orders, order_type, volume, sl, tp, oo, now)
        sent == IF Len(opened.orders) > Len(orders)
                THEN <<[step |-> "order_send",
                        request |-> opened.orders[Len(opened.orders)]]>>
                ELSE <<>>
        result == opened.result
        called == <<[step |-> "open_position", type |-> order_type,
                     result |-> result,
                     reinitialized |->
                        initialized /\ initialize_ReachesTerminal(initialized)]>>
        row == TradeRow(result, order_type, volume, entry_price, sl, tp)
        logged == log_trade(trades, row, now, written)
    IN  IF ~Truthy(result)
        THEN [initialized |-> ok, orders |-> opened.orders, trades |-> trades,
              steps |-> <<sized>> \o sent \o called]
        ELSE [initialized |-> ok, orders |-> opened.orders,
              trades |-> logged.file,
              steps |-> <<sized>> \o sent \o called
                        \o <<[step |-> "log_trade", trade_data |-> row,
                              at |-> now, written |-> written,
                              result |-> logged.result]>>]

\* What _execute_buy and _execute_sell share, lines 795-830 and 843-878: the
\* sizing, the order and the trade ledger's row.  It yields the state of the
\* executor and of the ledger it leaves and the steps it took.
ExecuteOrder(order_type, entry_price, sl, tp, info, io, oo, written) ==
    LET size == calculate_position_size(config, info.balance, entry_price, sl)
        volume == size.value
        sized == [step |-> "calculate_position_size", volume |-> volume]
        ok == initialize(initialized, io)
        opened == open_position(ok, orders, order_type, volume, sl, tp, oo, now)
        sent == IF Len(opened.orders) > Len(orders)
                THEN <<[step |-> "order_send",
                        request |-> opened.orders[Len(opened.orders)]]>>
                ELSE <<>>
        result == opened.result
        called == <<[step |-> "open_position", type |-> order_type,
                     result |-> result,
                     reinitialized |->
                        initialized /\ initialize_ReachesTerminal(initialized)]>>
        row == TradeRow(result, order_type, volume, entry_price, sl, tp)
        logged == log_trade(trades, row, now, written)
    IN  IF volume = 0
        THEN [initialized |-> initialized, orders |-> orders, trades |-> trades,
              steps |-> <<sized>>]
        ELSE IF ~Truthy(result)
        THEN [initialized |-> ok, orders |-> opened.orders, trades |-> trades,
              steps |-> <<sized>> \o sent \o called]
        ELSE [initialized |-> ok, orders |-> opened.orders,
              trades |-> logged.file,
              steps |-> <<sized>> \o sent \o called
                        \o <<[step |-> "log_trade", trade_data |-> row,
                              at |-> now, written |-> written,
                              result |-> logged.result]>>]

\* _execute_buy, lines 787-833
_execute_buy(price, info, io, oo, written) ==
    ExecuteOrder("buy", price.ask,
                 price.ask - config.default_sl_points * PriceScale,
                 price.ask + DefaultTpPoints * PriceScale,
                 info, io, oo, written)

\* _execute_sell, lines 835-881
_execute_sell(price, info, io, oo, written) ==
    ExecuteOrder("sell", price.bid,
                 price.bid + config.default_sl_points * PriceScale,
                 price.bid - DefaultTpPoints * PriceScale,
                 info, io, oo, written)

\* Lines 773-781, the end of the tick: the strategy's signal, if any, is
\* executed on the tick's price and snapshot.
Hook(signals) ==
    /\ pc = "trade"
    /\ \E signal \in signals,
          io \in SessionOutcomes(initialized), oo \in OpenOutcomes,
          written \in BOOLEAN :
          IF signal = "none"
          THEN UNCHANGED <<initialized, orders, trades, trail>>
          ELSE LET x == IF signal = "buy"
                        THEN _execute_buy(price_data, account_info, io, oo, written)
                        ELSE _execute_sell(price_data, account_info, io, oo, written)
               IN  /\ initialized' = x.initialized
                   /\ orders' = x.orders
                   /\ trades' = x.trades
                   /\ trail' = trail \o x.steps
    /\ pc' = "loop"
    /\ UNCHANGED <<now, config, fetcherVars, riskVars, events, running,
                   last_price_check, price_data, account_info, sleep_until,
                   ticks, unavailable,
                   last_block, call>>

\* The hook with a strategy behind it, while the bound on orders allows one.
Trade == Hook(IF Len(orders) < MaxOrders THEN Signals ELSE {"none"})

\* The hook as the source stands, its calls a comment: the tick ends.
EndTick == Hook({"none"})

\* stop(), lines 717-723
stop(written) ==
    /\ running' = FALSE
    /\ initialized' = FALSE
    /\ events' = log_event(events, "SYSTEM_STOP", "Trading system stopped",
                           None, written).file

\* stop() called from outside the loop's thread while the loop runs.
ExternalStop ==
    /\ pc \in LoopPcs
    /\ running
    /\ \E written \in BOOLEAN : stop(written)
    /\ UNCHANGED <<now, config, fetcherVars, riskVars, orders, trades,
                   last_price_check, pc, price_data, account_info, sleep_until,
                   trail, ticks, unavailable,
                   last_block, call>>

\* A KeyboardInterrupt in the loop's thread, lines 710-711: no except Exception
\* catches it, and it ends _main_loop wherever the loop stands.
KeyboardInterrupt ==
    /\ pc \in LoopPcs
    /\ pc' = "finally"
    /\ ClearTick
    /\ UNCHANGED <<now, config, fetcherVars, riskVars, executorVars, loggerVars,
                   running, last_price_check, sleep_until, ticks, last_block, call>>

\* The finally block of start(), lines 714-715: stop().
Finally ==
    /\ pc = "finally"
    /\ \E written \in BOOLEAN : stop(written)
    /\ pc' = "returned"
    /\ UNCHANGED <<now, config, fetcherVars, riskVars, orders, trades,
                   last_price_check, price_data, account_info, sleep_until,
                   trail, ticks, unavailable,
                   last_block, call>>

Next ==
    \/ Start
    \/ LoopTop
    \/ Wake
    \/ FetchPrice
    \/ FetchAccount
    \/ EvaluateRisk
    \/ Monitor
    \/ Trade
    \/ ExternalStop
    \/ KeyboardInterrupt
    \/ Finally

Spec == InitSystem /\ [][Next]_vars

-----------------------------------------------------------------------------
(* The loop as the source stands, with no strategy behind the hook and no    *)
(* stop request, over more ticks                                             *)

LoopOn == LoopHead(MaxLoopTicks)

NextLoop ==
    \/ Start
    \/ LoopOn
    \/ Wake
    \/ FetchPrice
    \/ FetchAccount
    \/ EvaluateRisk
    \/ Monitor
    \/ EndTick

SpecLoop == InitSystem /\ [][NextLoop]_vars

-----------------------------------------------------------------------------
(* The order lifecycle and the audit log on their own: any sequence of trade *)
(* executions, close_position, log_trade and log_event calls, while another  *)
(* process may remove a ledger.  trail holds the operations applied.         *)

\* A row the trade ledger holds before the program is constructed.
OldTradeLine ==
    TradeLine([ticket |-> 5, symbol |-> Symbol, type |-> "sell", volume |-> 1,
               entry_price |-> 4010, sl |-> 4030, tp |-> 3970,
               status |-> "opened"], 1)

\* The ledgers the constructor may find.
PriorTradeLedgers ==
    {Absent, File(<<TradeHeader>>), File(<<TradeHeader, OldTradeLine>>)}
PriorEventLedgers == {Absent, File(<<EventHeader>>)}

\* The dicts passed to log_trade: the one of _execute_buy, without timestamp,
\* and one with every column, as a closed trade would have.
TradeRecords ==
    {[ticket |-> 7, symbol |-> Symbol, type |-> "buy", volume |-> 1,
      entry_price |-> 4002, sl |-> 3982, tp |-> 4042, status |-> "opened"],
     [timestamp |-> 2, ticket |-> 7, symbol |-> Symbol, type |-> "buy",
      volume |-> 1, entry_price |-> 4002, exit_price |-> 4012, sl |-> 3982,
      tp |-> 4042, profit |-> 5, comment |-> "close", status |-> "closed"]}

\* The events passed to log_event.
EventRecords ==
    {[event_type |-> "SYSTEM_START", description |-> "Trading system started",
      data |-> [balance |-> 10000, equity |-> 9800, margin_level |-> 300]],
     [event_type |-> "SYSTEM_STOP", description |-> "Trading system stopped",
      data |-> None]}

\* The quote and the snapshot a trade is executed on.
LedgerQuote == Quote(4001, 4000, 4002, StartTime, "alpha_vantage")

\* The operations applied so far: the steps of trail but those a trade
\* execution takes after its sizing.
Calls ==
    {i \in 1..Len(trail) :
        /\ trail[i].step \notin {"order_send", "open_position"}
        /\ ~(/\ trail[i].step = "log_trade"
             /\ i > 1
             /\ trail[i - 1].step = "open_position")}

InitLedger ==
    /\ \E trade_file \in PriorTradeLedgers, event_file \in PriorEventLedgers :
          /\ ConstructedOn(trade_file, event_file)
          /\ call = [op |-> "TradeLogger", trades |-> trade_file,
                     events |-> event_file]
    /\ config \in {c \in Configs : /\ DefaultLots(c) /\ DefaultOffsets(c)
                                   /\ c.alpha_vantage_api_key}

\* _execute_buy or _execute_sell called on a quote and a snapshot.
ExecuteTrade ==
    /\ Cardinality(Calls) < MaxCalls
    /\ \E signal \in Signals \ {"none"}, info \in StartSnapshots,
          io \in SessionOutcomes(initialized), oo \in OpenOutcomes,
          written \in BOOLEAN :
          LET x == IF signal = "buy"
                   THEN _execute_buy(LedgerQuote, info, io, oo, written)
                   ELSE _execute_sell(LedgerQuote, info, io, oo, written)
          IN  /\ initialized' = x.initialized
              /\ orders' = x.orders
              /\ trades' = x.trades
              /\ trail' = trail \o x.steps
    /\ UNCHANGED <<now, config, fetcherVars, riskVars, events, running,
                   last_price_check, pc, price_data, account_info, sleep_until,
                   ticks, unavailable,
                   last_block, call>>

ClosePosition ==
    /\ Cardinality(Calls) < MaxCalls
    /\ \E ticket \in 1..MaxOrders, io \in SessionOutcomes(initialized),
          o \in CloseOutcomes :
          LET ok == initialize(initialized, io)
              x == close_position(ok, orders, ticket, o)
          IN  /\ initialized' = ok
              /\ orders' = x.orders
              /\ trail' = Append(trail, [step |-> "close_position",
                                         ticket |-> ticket,
                                         result |-> x.result])
    /\ UNCHANGED <<now, config, fetcherVars, riskVars, loggerVars, running,
                   last_price_check, pc, price_data, account_info, sleep_until,
                   ticks, unavailable,
                   last_block, call>>

LogTrade ==
    /\ Cardinality(Calls) < MaxCalls
    /\ \E trade_data \in TradeRecords, written \in BOOLEAN :
          LET x == log_trade(trades, trade_data, now, written)
          IN  /\ trades' = x.file
              /\ trail' = Append(trail, [step |-> "log_trade",
                                         trade_data |-> trade_data, at |-> now,
                                         written |-> written,
                                         result |-> x.result])
    /\ UNCHANGED <<now, config, fetcherVars, riskVars, executorVars, events,
                   running, last_price_check, pc, price_data, account_info,
                   sleep_until, ticks, unavailable,
                   last_block, call>>

LogEvent ==
    /\ Cardinality(Calls) < MaxCalls
    /\ \E e \in EventRecords, written \in BOOLEAN :
          LET x == log_event(events, e.event_type, e.description, e.data, written)
          IN  /\ events' = x.file
              /\ trail' = Append(trail, [step |-> "log_event", event |-> e,
                                         written |-> written,
                                         result |-> x.result])
    /\ UNCHANGED <<now, config, fetcherVars, riskVars, executorVars, trades,
                   running, last_price_check, pc, price_data, account_info,
                   sleep_until, ticks, unavailable,
                   last_block, call>>

\* Another process removes (rotates away) a ledger.
RemoveLedger ==
    /\ Cardinality(Calls) < MaxCalls
    /\ \/ /\ trades.exists
          /\ trades' = Absent
          /\ UNCHANGED events
          /\ trail' = Append(trail, [step |-> "remove", ledger |-> "trades"])
       \/ /\ events.exists
          /\ events' = Absent
          /\ UNCHANGED trades
          /\ trail' = Append(trail, [step |-> "remove", ledger |-> "events"])
    /\ UNCHANGED <<now, config, fetcherVars, riskVars, executorVars, running,
                   last_price_check, pc, price_data, account_info, sleep_until,
                   ticks, unavailable,
                   last_block, call>>

NextLedger ==
    \/ ExecuteTrade
    \/ ClosePosition
    \/ LogTrade
    \/ LogEvent
    \/ RemoveLedger

SpecLedger == InitLedger /\ [][NextLedger]_vars

-----------------------------------------------------------------------------
(* Properties of the quote aggregator, checked under SpecQuote *)

Priced == call.op = "get_live_price"

\* A structurally valid quote: bid <= ask and price > 0.
ValidQuote(q) == q # None /\ q.bid <= q.ask /\ q.price > 0

\* The sources get_live_price ranks, in priority order: Alpha Vantage is one of
\* them when its key is configured.
RankedSources ==
    IF config.alpha_vantage_api_key THEN <<"MT5", "AlphaVantage", "Finnhub">>
    ELSE <<"MT5", "Finnhub">>

\* What the source returned to the aggregator in the last call: a quote or None.
SourceReturned(source) ==
    CASE source = "MT5" -> _fetch_from_mt5(call.mt5).value
      [] source = "AlphaVantage" ->
            _fetch_from_alpha_vantage(call.av, call.queried).value
      [] source = "Finnhub" -> _fetch_from_finnhub(call.fh, call.queried).value

\* C2: when the i-th ranked source returns a structurally valid quote and every
\* source ranked before it returns none, get_live_price returns exactly that
\* source's quote.
C2_FirstValidSourceWins ==
    Priced =>
        \A i \in 1..Len(RankedSources) :
            (/\ ValidQuote(SourceReturned(RankedSources[i]))
             /\ \A j \in 1..(i - 1) : SourceReturned(RankedSources[j]) = None)
            => call.result = Ret(SourceReturned(RankedSources[i]))

\* The terminal and Alpha Vantage fail, Finnhub answers, and Finnhub's quote is
\* what the caller gets.
C2_Witness ==
    /\ Priced
    /\ config.alpha_vantage_api_key
    /\ call.mt5.kind = "no_tick"
    /\ call.av.kind = "status"
    /\ call.fh.kind = "price" /\ call.fh.price > 0
    /\ call.result.value # None
    /\ call.result.value.source = "Finnhub"

\* C3: every quote get_live_price returns has bid <= price <= ask; a tick with
\* bid > ask is not forwarded.
C3_NoInvertedQuote ==
    (Priced /\ ~call.result.raised /\ call.result.value # None) =>
        /\ call.result.value.bid <= call.result.value.price
        /\ call.result.value.price <= call.result.value.ask

\* C4: no quote get_live_price returns has a price <= 0; a source reporting one
\* is skipped.
C4_NoNonPositivePrice ==
    (Priced /\ ~call.result.raised /\ call.result.value # None) =>
        call.result.value.price > 0

\* Every ranked source failed: an exception, a non-success response, malformed
\* or empty data, a missing tick, a terminal that does not initialise.
AllSourcesFail ==
    /\ call.mt5.kind \in {"init_failed", "no_tick", "error"}
    /\ config.alpha_vantage_api_key =>
          call.av.kind \in {"error", "status", "no_quote", "no_price", "bad_price"}
    /\ call.fh.kind \in {"error", "status", "no_price", "bad_price"}

QuoteFields == {"price", "bid", "ask", "timestamp", "source"}

\* C5: get_live_price never raises, its result is a quote or None, and it is
\* None when every source fails.
C5_AllFailIsUnavailable ==
    Priced =>
        /\ ~call.result.raised
        /\ call.result.value = None \/ DOMAIN call.result.value = QuoteFields
        /\ AllSourcesFail => call.result.value = None

\* All three sources raise inside their fetch, and the caller gets None.
C5_Witness ==
    /\ Priced
    /\ config.alpha_vantage_api_key
    /\ call.mt5.kind = "error"
    /\ call.av.kind = "error"
    /\ call.fh.kind = "bad_price"
    /\ call.result = Ret(None)

-----------------------------------------------------------------------------
(* Properties of the risk gate, checked under SpecRisk *)

Gated == call.op = "check_trading_allowed"
Sizing == call.op = "calculate_position_size"

\* The three checks of the gate as ratios of the snapshot a against the day's
\* start balance ds, each cap inclusive on the blocking side.
DailyLossFails(ds, a) == 100 * (ds - a.balance) >= max_daily_loss * ds
DrawdownFails(a) == 100 * (a.balance - a.equity) >= max_drawdown * a.balance
MarginFails(a) == a.margin_level < MinMarginLevel

\* C6: a decision of the gate carries the reason of the first failing check in
\* the order daily loss, drawdown, margin level.
C6_FirstFailingCheckWins ==
    (Gated /\ ~call.result.raised) =>
        LET a == call.account_info
            ds == day_start_balance
            d == call.result.value
        IN  /\ DailyLossFails(ds, a) => d = Decision(FALSE, DailyLossReason)
            /\ (~DailyLossFails(ds, a) /\ DrawdownFails(a))
                  => d = Decision(FALSE, DrawdownReason)
            /\ (~DailyLossFails(ds, a) /\ ~DrawdownFails(a) /\ MarginFails(a))
                  => d = Decision(FALSE, MarginReason)

\* balance = 10000, day start balance = 10000, equity = 8900, margin level 300:
\* blocked for the drawdown.
C6_Witness ==
    /\ Gated
    /\ call.account_info = AccountInfo(10000, 8900, 300)
    /\ day_start_balance = 10000
    /\ call.result = Ret(Decision(FALSE, DrawdownReason))

\* C7: the gate allows exactly when the daily loss ratio is below its cap, the
\* drawdown ratio is below its cap and the margin level is at least the floor.
C7_AllowIffAllChecksPass ==
    (Gated /\ ~call.result.raised) =>
        LET a == call.account_info
            ds == day_start_balance
        IN  call.result.value.allowed <=>
                /\ 100 * (ds - a.balance) < max_daily_loss * ds
                /\ 100 * (a.balance - a.equity) < max_drawdown * a.balance
                /\ a.margin_level >= MinMarginLevel

\* balance = 10000, day start balance = 10500, equity = 9800, margin level 250:
\* allowed.
C7_Witness ==
    /\ Gated
    /\ call.account_info = AccountInfo(10000, 9800, 250)
    /\ day_start_balance = 10500
    /\ call.result = Ret(Decision(TRUE, AllowedReason))

\* C8: with entry == stop, calculate_position_size returns 0 without dividing
\* and without raising, whatever the balance.
C8_ZeroRiskDistanceIsZero ==
    (Sizing /\ call.entry_price = call.stop_loss) =>
        call.result = Sized(FALSE, 0, FALSE)

C8_Witness ==
    /\ Sizing
    /\ call.entry_price = call.stop_loss
    /\ call.account_balance > 0
    /\ call.result.value = 0

\* C9 as stated: for balance > 0 and entry # stop the volume lies within
\* [minLot, maxLot], for every configured minLot and maxLot.
C9_InRangeForEveryConfig ==
    (Sizing /\ call.account_balance > 0 /\ call.entry_price # call.stop_loss) =>
        /\ ~call.result.raised
        /\ config.min_lot_size <= call.result.value
        /\ call.result.value <= config.max_lot_size

\* C9, amended: for balance > 0, entry # stop and a configuration whose minLot is
\* at most its maxLot, the volume lies within [minLot, maxLot].
C9_InRangeForOrderedLimits ==
    (/\ Sizing /\ call.account_balance > 0 /\ call.entry_price # call.stop_loss
     /\ config.min_lot_size <= config.max_lot_size) =>
        /\ ~call.result.raised
        /\ config.min_lot_size <= call.result.value
        /\ call.result.value <= config.max_lot_size

\* A computed lot size above the maximum is cut down to it: 10000 at 2 percent
\* over 10 price units is 20 lots, against a maximum of 10.
C9_Witness ==
    /\ Sizing
    /\ call.account_balance = 10000
    /\ Abs(call.entry_price - call.stop_loss) = 10 * PriceScale
    /\ config.min_lot_size < config.max_lot_size
    /\ call.result.value = config.max_lot_size

\* C10: neither operation of the risk gate raises, for any snapshot with
\* balance, equity and margin level >= 0.
C10_GateNeverRaises ==
    (Gated \/ Sizing) => ~call.result.raised


-----------------------------------------------------------------------------
(* Properties of the execution cycle, checked under Spec *)

\* The steps of the current tick that are calls of the named operation.
StepsOf(name) == {i \in 1..Len(trail) : trail[i].step = name}

\* The gate evaluations of the current tick before step i that returned
\* allowed=True on the snapshot get_account_info delivered earlier in the tick.
AllowsBefore(i) ==
    {j \in StepsOf("check_trading_allowed") :
        /\ j < i
        /\ ~trail[j].result.raised
        /\ trail[j].result.value.allowed
        /\ \E k \in StepsOf("get_account_info") :
              k < j /\ trail[k].result = trail[j].account_info}

\* The gate evaluations of the current tick that did not return allowed=True.
Refusals ==
    {j \in StepsOf("check_trading_allowed") :
        trail[j].result.raised \/ ~trail[j].result.value.allowed}

\* C1: every request that reaches the terminal's order_send is preceded, in
\* the same tick, by a check_trading_allowed on that tick's account snapshot
\* that returned allowed=True, and no request is sent in a tick whose gate
\* refused or was not evaluated.
C1_OrderOnlyAfterAllow ==
    \A i \in StepsOf("order_send") :
        AllowsBefore(i) # {} /\ Refusals = {}

\* C1: a tick in which the gate allowed and order_send accepted the request.
C1_Witness ==
    \E i \in StepsOf("order_send") :
        /\ trail[i].request.outcome = "done"
        /\ AllowsBefore(i) # {}
        /\ Len(orders) > 0


\* The trade attempts of the current tick that open_position rejected: it
\* returned None, whether order_send was reached or not.
Rejections ==
    {i \in StepsOf("open_position") : ~Truthy(trail[i].result)}

\* The rows of the trade ledger with status "opened".
OpenedRows ==
    {i \in 1..Len(DataRows(trades)) : DataRows(trades)[i].status = "opened"}

\* C11: an "opened" row of the trade ledger carries the ticket of an order the
\* broker accepted, and no trade attempt that open_position rejected is
\* followed by a log_trade in its tick.
C11_OpenedOnlyIfAccepted ==
    /\ \A i \in OpenedRows :
          \E j \in Accepted(orders) :
              orders[j].ticket = DataRows(trades)[i].ticket
    /\ Cardinality(OpenedRows) <= Cardinality(Accepted(orders))
    /\ \A i \in Rejections : \A k \in StepsOf("log_trade") : k < i

\* C11: order_send answered a retcode other than DONE, open_position returned
\* None, and the trade ledger holds no data row.
C11_Witness ==
    /\ \E i \in StepsOf("order_send") : trail[i].request.outcome = "rejected"
    /\ Rejections # {}
    /\ Len(orders) > 0
    /\ DataRows(trades) = <<>>

\* The rows of the event ledger other than those of the system's start and stop.
AttemptEvents ==
    {i \in 1..Len(DataRows(events)) :
        DataRows(events)[i].event_type \notin {"SYSTEM_START", "SYSTEM_STOP"}}

\* C12: every trade attempt that ends in rejection has a row describing it in
\* the event ledger.
C12_RejectionIsAudited ==
    Rejections # {} => AttemptEvents # {}


-----------------------------------------------------------------------------
(* Properties of the order lifecycle and the audit log, checked under        *)
(* SpecLedger                                                                *)

\* The log_trade calls made so far whose write the store took, those of the
\* trade executions included, in call order, and the rows they wrote.
WrittenTradeCalls ==
    SelectSeq(trail, LAMBDA c : c.step = "log_trade" /\ c.written)
LinesOf(calls) ==
    [i \in 1..Len(calls) |-> TradeLine(calls[i].trade_data, calls[i].at)]

\* No other process has removed the named ledger since construction.
Kept(ledger) ==
    \A i \in StepsOf("remove") : trail[i].ledger # ledger

\* The rows the trade ledger held when the logger was constructed.
PriorRows == DataRows(call.trades)

\* C13: every open the broker accepted whose log_trade the store took has a
\* row with status "opened" and its ticket in the trade ledger, and every
\* close_position that returned True has a row with status "closed" for its
\* ticket.
C13_OpenAndCloseAreRecorded ==
    Kept("trades") =>
      /\ \A i \in StepsOf("log_trade") :
            (trail[i].written /\ trail[i].trade_data.status = "opened") =>
               \E k \in 1..Len(DataRows(trades)) :
                   /\ DataRows(trades)[k].status = "opened"
                   /\ DataRows(trades)[k].ticket = trail[i].trade_data.ticket
      /\ \A i \in StepsOf("close_position") :
            trail[i].result =>
               \E k \in 1..Len(DataRows(trades)) :
                   /\ DataRows(trades)[k].status = "closed"
                   /\ DataRows(trades)[k].ticket = trail[i].ticket

\* C14 as stated: the N log_trade calls made so far have produced exactly N
\* data rows, in call order.
C14_EveryCallIsARow ==
    Kept("trades") =>
      DataRows(trades) =
        PriorRows \o LinesOf(SelectSeq(trail, LAMBDA c : c.step = "log_trade"))

\* C14 amended: the log_trade calls made so far whose write the store took
\* have produced exactly one data row each, in call order, after the rows the
\* ledger already held.
C14_WrittenCallsAreRowsInOrder ==
    Kept("trades") =>
      DataRows(trades) = PriorRows \o LinesOf(WrittenTradeCalls)

\* C14: as many calls as the bound allows, with different records, all written.
C14_Witness ==
    /\ Kept("trades")
    /\ Len(WrittenTradeCalls) >= MaxCalls
    /\ \E i, k \in 1..Len(WrittenTradeCalls) :
          i < k /\ WrittenTradeCalls[i].trade_data # WrittenTradeCalls[k].trade_data

\* The log_trade and log_event calls made so far.
LogCalls == StepsOf("log_trade") \cup StepsOf("log_event")

\* C15: no log_trade and no log_event call raises, whether the store took the
\* write or not, and the trade execution that called log_trade completes.
C15_LoggingNeverRaises ==
    \A i \in LogCalls : ~trail[i].result.raised

\* C15: a trade execution whose order the broker accepted and whose log_trade
\* the store refused, and a log_event the store refused.
C15_Witness ==
    /\ \E i \in StepsOf("log_trade") :
          /\ ~trail[i].written
          /\ ~trail[i].result.raised
          /\ \E k \in StepsOf("open_position") : k < i /\ Truthy(trail[k].result)
    /\ \E i \in StepsOf("log_event") : ~trail[i].written

\* A ledger's content is its header followed by data rows only.
HeaderThenRows(file, header) ==
    file.exists =>
      /\ Len(file.lines) >= 1
      /\ file.lines[1] = header
      /\ \A i \in 2..Len(file.lines) : ~IsHeader(file.lines[i])

\* C16: each ledger that exists is its header row followed by the rows
\* appended so far, and a ledger that was there at construction keeps the
\* rows it had.
C16_HeaderThenAppendedRows ==
    /\ HeaderThenRows(trades, TradeHeader)
    /\ HeaderThenRows(events, EventHeader)
    /\ Kept("trades") =>
          /\ Len(DataRows(trades)) >= Len(PriorRows)
          /\ SubSeq(DataRows(trades), 1, Len(PriorRows)) = PriorRows


-----------------------------------------------------------------------------
(* Properties of the loop, checked under SpecLoop and Spec *)

\* The gate has allowed trading in the current tick, on its snapshot.
AllowedInTick == AllowsBefore(Len(trail) + 1) # {}

\* The cycles that completed MONITOR among the current tick and the ticks
\* without a price before it.
MonitorsCompleted ==
    Cardinality(StepsOf("get_open_positions"))
    + Cardinality({n \in 1..Len(unavailable) :
                     \E k \in 1..Len(unavailable[n]) :
                         unavailable[n][k] = "get_open_positions"})

\* C17: a tick in which get_live_price is Unavailable takes no other step (no
\* account fetch, no gate evaluation, no trade action); and when three such
\* ticks in a row are followed by a tick with a price, a snapshot and an
\* allowing gate, that tick goes on to MONITOR and exactly one cycle of the
\* four completes it.
C17_BackoffScenario ==
    /\ \A n \in 1..Len(unavailable) : unavailable[n] = <<"get_live_price">>
    /\ (/\ trail # <<>>
        /\ trail[1].step = "get_live_price"
        /\ Unavailable(trail[1].result))
       => (Len(trail) = 1 /\ pc \in {"sleeping", "loop"})
    /\ (Len(unavailable) >= 3 /\ AllowedInTick)
       => /\ pc \in {"monitor", "trade", "loop"}
          /\ MonitorsCompleted = IF pc = "monitor" THEN 0 ELSE 1

\* C17: three ticks without a price, then a tick that completed MONITOR and
\* ended.
C17_Witness ==
    /\ Len(unavailable) = 3
    /\ AllowedInTick
    /\ pc = "loop"
    /\ MonitorsCompleted = 1

\* The faults raised in the current tick.
Faults ==
    {i \in StepsOf("get_live_price") \cup StepsOf("check_trading_allowed") :
        trail[i].result.raised}

\* C18: a fault raised in a tick is followed by the fixed delay and the head
\* of the loop, and the loop is left only when running is false or on a
\* keyboard interrupt.
C18_FaultsStayInTick ==
    /\ [](Faults # {} =>
             \/ pc = "sleeping" /\ sleep_until = now + FailureBackoff
             \/ pc = "loop")
    /\ [][(pc \in LoopPcs /\ pc' \notin LoopPcs)
             => (~running \/ KeyboardInterrupt)]_vars

\* C18: the gate raised, the delay has passed, and the loop is at its head
\* again, still running.
C18_Witness ==
    /\ Faults # {}
    /\ pc = "loop"
    /\ running
    /\ now >= StartTime + FailureBackoff

\* start() found no terminal session.
StartFailed ==
    /\ trail # <<>>
    /\ trail[1].step = "initialize"
    /\ ~trail[1].result

\* C19: when initialize() fails in start(), start() has returned: running was
\* never set, no tick ran, no price was fetched, the gate was not evaluated
\* and no order was submitted.
C19_NoLoopWithoutSession ==
    StartFailed =>
      /\ pc = "returned"
      /\ ~running
      /\ ~initialized
      /\ ticks = 0
      /\ Len(trail) = 1
      /\ last_fetch_time = 0
      /\ day_start_balance = 0
      /\ orders = <<>>
      /\ DataRows(events) = <<>>

\* C19: start() has returned after a failed initialize().
C19_Witness == StartFailed /\ pc = "returned"

\* C20: once stop() was called, the loop is in no sleep that lasts longer
\* than one sleep slice.
C20_StopWithinOneSlice ==
    (pc = "sleeping" /\ ~running) => sleep_until <= now + SleepSlice


-----------------------------------------------------------------------------
(* Further properties of the aggregator and of the risk gate, checked under  *)
(* SpecQuote and SpecRisk                                                    *)

\* C22: a get_live_price queries its sources no sooner than the minimum
\* interval after the call before it did, and not before it is made; a call
\* made after the interval has elapsed queries at once, and one made before
\* queries exactly when the interval has elapsed, whatever the sources answer.
C22_QueriesAreSpaced ==
    Priced =>
      /\ call.queried - call.last >= min_fetch_interval
      /\ call.queried >= call.at
      /\ call.queried = IF call.at - call.last >= min_fetch_interval
                        THEN call.at
                        ELSE call.last + min_fetch_interval
      /\ last_fetch_time = call.queried

\* C22: a call made before the interval had elapsed, all of whose sources
\* failed and which queried them once the interval had elapsed.
C22_Witness ==
    /\ Priced
    /\ call.last > 0
    /\ call.at - call.last < min_fetch_interval
    /\ call.queried = call.last + min_fetch_interval
    /\ call.result = Ret(None)

\* C26: day_start_balance is the balance of the first snapshot passed to
\* check_trading_allowed since construction or the last reset_daily_stats, it
\* changes only in that first check and in reset_daily_stats, and
\* calculate_position_size changes no state of the risk gate.
C26_CapturedOnceAndHeld ==
    /\ [](trail # <<>> => day_start_balance = trail[1].account_info.balance)
    /\ [](trail = <<>> => day_start_balance = 0)
    /\ [][call'.op = "calculate_position_size" => UNCHANGED riskVars]_vars
    /\ [][call'.op = "reset_daily_stats" => day_start_balance' = 0]_vars


-----------------------------------------------------------------------------
\* The terminal session in the loop.

\* The steps of the tick that work on the terminal; each records whether it
\* began on a standing session and called the terminal's initialize.
TerminalSteps == {i \in 1..Len(trail) : "reinitialized" \in DOMAIN trail[i]}

\* C21: the terminal session is initialised once and reused: a step of the
\* executor or a native-source price fetch that starts while the session stands
\* does not call the terminal's initialize again.
C21_SessionInitialisedOnce ==
    \A i \in TerminalSteps : ~trail[i].reinitialized

-----------------------------------------------------------------------------
\* The stages of a tick and the audit of the run.

\* The calls of a tick up to MONITOR in the order of lines 741-766, and the
\* steps of a trade after them.
TickOrder ==
    <<"get_live_price", "get_account_info", "check_trading_allowed",
      "get_open_positions">>
TradeSteps == {"calculate_position_size", "order_send", "open_position", "log_trade"}

\* A tick has fetched its price and the next has not begun.
InTick == trail # <<>> /\ trail[1].step = "get_live_price"

\* The gate's answer r is a BLOCK.
Blocked(r) == ~r.raised /\ ~r.value.allowed

\* How the current tick stopped short, if it did.
PriceFailed == InTick /\ Unavailable(trail[1].result)
AccountFailed == InTick /\ Len(trail) >= 2 /\ trail[2].result = None
GateBlocked == InTick /\ Len(trail) >= 3 /\ Blocked(trail[3].result)

\* The tick ended in a sleep of d, which runs or has just run out at the head
\* of the loop; the tick's clock stood at the time of its price query.
BackOff(d) ==
    \/ pc = "sleeping" /\ sleep_until = now + d /\ now = last_fetch_time
    \/ pc = "loop" /\ now = last_fetch_time + d

\* C23: in a tick the stages run in the order price, account, gate, monitor,
\* then the trade; no stage follows an unavailable price, a failed account fetch
\* or a BLOCK, and each of these ends the tick with its back-off.
C23_StagesInOrder ==
    InTick =>
      /\ \A i \in 1..Len(trail) :
            IF i <= Len(TickOrder) THEN trail[i].step = TickOrder[i]
            ELSE trail[i].step \in TradeSteps
      /\ PriceFailed => Len(trail) = 1 /\ BackOff(FailureBackoff)
      /\ AccountFailed => Len(trail) = 2 /\ BackOff(FailureBackoff)
      /\ GateBlocked => Len(trail) = 3 /\ BackOff(BlockBackoff)
      /\ pc = "fetch_account" => Len(trail) = 1
      /\ pc = "evaluate_risk" => Len(trail) = 2
      /\ pc = "monitor" => Len(trail) = 3
      /\ pc = "trade" => Len(trail) = 4

\* A tick lost its account snapshot after a price, and its back-off has run.
C23_Witness ==
    /\ AccountFailed
    /\ ~PriceFailed
    /\ pc = "loop"
    /\ now = last_fetch_time + FailureBackoff

\* C24: the delay after a BLOCK is longer than the delay after a failed
\* fetch, and the gate is not evaluated again before that delay has passed
\* since the last BLOCK.
C24_BlockBackoffIsLonger ==
    /\ BlockBackoff > FailureBackoff
    /\ \A i \in StepsOf("check_trading_allowed") :
          trail[i].last_block > 0
             => trail[i].at - trail[i].last_block >= BlockBackoff

\* The gate is evaluated again after a BLOCK.
C24_Witness ==
    \E i \in StepsOf("check_trading_allowed") :
       /\ trail[i].last_block > 0
       /\ trail[i].at >= trail[i].last_block + BlockBackoff

\* C25: a tick that ends in a BLOCK or in a failure of the price or account
\* source has a row of its own in the event ledger, besides the rows of the
\* system's start and stop.
C25_StoppedTicksAreAudited ==
    (PriceFailed \/ AccountFailed \/ GateBlocked)
       => \E i \in 1..Len(DataRows(events)) :
             DataRows(events)[i].event_type \notin {"SYSTEM_START", "SYSTEM_STOP"}

\* The sizing steps of the current tick before step i that gave a volume
\* above zero.
SizedBefore(i) ==
    {j \in StepsOf("calculate_position_size") : j < i /\ trail[j].volume > 0}

\* C27: in the trade step open_position is called only after the sizing gave a
\* volume above zero; a sizing of zero ends the trade with no order and no
\* row; the row of an opened order has status "opened" and the ticket the
\* broker gave the order.
C27_TradeOnlyWhenSized ==
    \A i \in 1..Len(trail) :
       /\ trail[i].step = "calculate_position_size" /\ trail[i].volume = 0
             => i = Len(trail)
       /\ trail[i].step \in {"order_send", "open_position"}
             => SizedBefore(i) # {}
       /\ trail[i].step = "log_trade"
             => /\ trail[i - 1].step = "open_position"
                /\ Truthy(trail[i - 1].result)
                /\ trail[i].trade_data.status = "opened"
                /\ trail[i].trade_data.ticket = trail[i - 1].result.ticket
                /\ trail[i - 2].step = "order_send"
                /\ trail[i - 2].request.outcome = "done"
                /\ trail[i].trade_data.ticket = trail[i - 2].request.ticket
                /\ trail[i].trade_data.volume = trail[i - 2].request.volume

\* A signal was sized to zero: the trade ended there, with no order.
C27_Witness ==
    /\ pc = "loop"
    /\ Len(trail) = Len(TickOrder) + 1
    /\ trail[Len(trail)].step = "calculate_position_size"
    /\ trail[Len(trail)].volume = 0
    /\ orders = <<>>
    /\ DataRows(trades) = <<>>

\* The rows of the event ledger with the given event type.
EventRows(event_type) ==
    {i \in 1..Len(DataRows(events)) :
        DataRows(events)[i].event_type = event_type}

\* C28: a run of start() appends SYSTEM_START once before the first tick and
\* SYSTEM_STOP once after the last, however the loop ends, and leaves the
\* session shut down and running false; a run that fails initialisation
\* appends neither.  A row the store refuses is missing, so the count is
\* stated as at most one.
C28_OneStartOneStop ==
    /\ Cardinality(EventRows("SYSTEM_START")) <= 1
    /\ Cardinality(EventRows("SYSTEM_STOP")) <= 1
    /\ \A i \in EventRows("SYSTEM_START"), j \in EventRows("SYSTEM_STOP") : i < j
    /\ pc = "returned" => ~running /\ ~initialized
    /\ StartFailed => DataRows(events) = <<>>

====
